---- MODULE Spec2Model ----
(***************************************************************************)
(* Model of the Ollama relay handler, src/app/api/ollama/route.ts (POST).  *)
(*                                                                         *)
(* One handler invocation per inbound request.  JavaScript runs each       *)
(* continuation to completion, so every action below is the code between   *)
(* two awaits: the run from the resolved await up to the next await or up  *)
(* to the return (catch and finally included).                             *)
(***************************************************************************)
EXTENDS Integers, Sequences, FiniteSets, TLC

(***************************************************************************)
(* JavaScript / JSON values.  A value is a record tagged by its typeof-like*)
(* kind; each kind keeps its payload in a field of its own.                *)
(***************************************************************************)
Undefined == [t |-> "undefined"]
JNull == [t |-> "null"]
JNum(n) == [t |-> "number", n |-> n]
JStr(s) == [t |-> "string", s |-> s]
JArr(a) == [t |-> "array", a |-> a]
JObj(o) == [t |-> "object", o |-> o]
JBool(b) == [t |-> "boolean", b |-> b]
EmptyFields == [k \in {} |-> Undefined]

\* An optional field of an object literal: no field when the value is undefined.
Field(k, v) == IF v = Undefined THEN EmptyFields ELSE (k :> v)

\* v.k, for a v that is neither null nor undefined (those throw TypeError).
Get(v, k) ==
    IF v.t = "object" /\ k \in DOMAIN v.o THEN v.o[k] ELSE Undefined

\* Property access on null or undefined throws.
Nullish(v) == v.t \in {"null", "undefined"}

\* ToBoolean(v), as used by &&, ||, ! and if.
Truthy(v) ==
    CASE v.t = "undefined" -> FALSE
      [] v.t = "null" -> FALSE
      [] v.t = "string" -> v.s # ""
      [] v.t = "number" -> v.n # 0
      [] v.t = "boolean" -> v.b
      [] OTHER -> TRUE

IsString(v) == v.t = "string"
IsArray(v) == v.t = "array"

\* a || b
Or(a, b) == IF Truthy(a) THEN a ELSE b

Min(a, b) == IF a <= b THEN a ELSE b

(***************************************************************************)
(* Bounds of the model.                                                    *)
(***************************************************************************)
MaxMsgs == 2
MaxList == 2

\* Sequences over S of length at most n.
SeqUpTo(S, n) == UNION {[1..k -> S] : k \in 0..n}

(***************************************************************************)
(* Errors a rejected await or a throwing expression hands to the catch.    *)
(***************************************************************************)
Err(name, message) == [name |-> name, message |-> message]
NoErr == Err("", "")
AbortError == Err("AbortError", "This operation was aborted")
FetchFailed == Err("TypeError", "fetch failed")
BodyTerminated == Err("TypeError", "terminated")
JsonSyntaxError == Err("SyntaxError", "Unexpected token < in JSON at position 0")
NullDestructure == Err("TypeError", "Cannot destructure property 'messages' of null")
MapOfNonArray == Err("TypeError", "messages.map is not a function")
ReadOfNull == Err("TypeError", "Cannot read properties of null (reading 'message')")
LowerOfNonString == Err("TypeError", "Cannot read properties of undefined (reading 'toLowerCase')")
RoleOfNull == Err("TypeError", "Cannot read properties of null (reading 'role')")
NameOfNull == Err("TypeError", "Cannot read properties of null (reading 'name')")

(***************************************************************************)
(* Pure parts of POST.                                                     *)
(***************************************************************************)

\* line 11: the hardcoded fallback base URL.
DefaultUrl == JStr("http://localhost:11434")

\* Mutant: the environment default taking priority over the request's baseUrl.
ollamaUrlEnvFirst(baseUrl, envUrl) == Or(envUrl, Or(baseUrl, DefaultUrl))

\* line 11: baseUrl || process.env.OLLAMA_URL || 'http://localhost:11434'
ollamaUrl(baseUrl, envUrl) == Or(baseUrl, Or(envUrl, DefaultUrl))

\* line 35: `${ollamaUrl}/api/chat`
ChatUrl(base) == base.s \o "/api/chat"

\* line 17: msg.role throws when an element of messages is null.
HasNullMessage(messages) == \E i \in 1..Len(messages.a) : Nullish(messages.a[i])

\* Mutant: the forwarded messages in reverse order.
ollamaMessagesReversed(messages) ==
    JArr([i \in 1..Len(messages.a) |->
            JObj(Field("role", Get(messages.a[Len(messages.a) + 1 - i], "role"))
                 @@ Field("content", Get(messages.a[Len(messages.a) + 1 - i], "content")))])

\* lines 16-19: messages.map(msg => ({role: msg.role, content: msg.content}))
ollamaMessages(messages) ==
    JArr([i \in 1..Len(messages.a) |->
            JObj(Field("role", Get(messages.a[i], "role"))
                 @@ Field("content", Get(messages.a[i], "content")))])

\* lines 21-25: the outbound request body.
requestBody(model, messages) ==
    JObj(Field("model", model)
         @@ ("messages" :> ollamaMessages(messages))
         @@ ("stream" :> JBool(FALSE)))

\* line 46: response.ok, as the fetch runtime sets it.
Ok(status) == status >= 200 /\ status <= 299

\* line 50: response.statusText, as the fetch runtime sets it.
StatusText(status) ==
    CASE status = 200 -> "OK"
      [] status = 404 -> "Not Found"
      [] status = 500 -> "Internal Server Error"
      [] OTHER -> ""

\* line 67: the placeholder text.
Placeholder == JStr("No response from Ollama")

\* Mutant: the flat response string tried before the nested message content.
textResponseFirst(data) ==
    LET message == Get(data, "message")
        content == IF Truthy(message) THEN Get(message, "content") ELSE message
    IN  IF Truthy(Get(data, "response")) THEN Get(data, "response")
        ELSE IF Truthy(content) THEN content
        ELSE Placeholder

\* lines 61-68, for a data that is not null (data.message throws on null).
text(data) ==
    LET message == Get(data, "message")
        content == IF Truthy(message) THEN Get(message, "content") ELSE message
    IN  IF Truthy(content) THEN content
        ELSE IF Truthy(Get(data, "response")) THEN Get(data, "response")
        ELSE Placeholder

\* lines 71-81
modelList(data) ==
    IF IsArray(data) THEN data.a
    ELSE IF Truthy(data) /\ data.t = "object"
         THEN IF IsArray(Get(data, "models")) THEN Get(data, "models").a
              ELSE IF IsArray(Get(data, "data")) THEN Get(data, "data").a
              ELSE <<>>
    ELSE <<>>

\* String.prototype.toLowerCase on the names the model uses.
ToLowerCase(s) ==
    CASE s = "Llama3" -> "llama3"
      [] s = "LLAMA3" -> "llama3"
      [] s = "Phi" -> "phi"
      [] OTHER -> s

\* line 84
slug(model) == ToLowerCase(model.s)

\* line 85: the predicate of modelList.find
Matches(m, sl) == Truthy(m) /\ IsString(Get(m, "name")) /\ Get(m, "name").s = sl

\* line 85: whether find returns an entry
found(list, sl) == \E i \in 1..Len(list) : Matches(list[i], sl)

\* line 92: the cap of the advisory list.
MaxAvailable == 10

\* lines 89-92, for a list without null entries (m.name throws on null).
availableModels(list) ==
    LET names == [i \in 1..Len(list) |-> Get(list[i], "name")]
        strings == SelectSeq(names, IsString)
    IN  SubSeq(strings, 1, Min(MaxAvailable, Len(strings)))

\* line 90: m.name throws when an entry is null.
HasNullEntry(list) == \E i \in 1..Len(list) : Nullish(list[i])

\* Mutant: the backend's status passed through as the reply's status.
BackendErrorReplyPassThrough(response, errorText) ==
    [status |-> response.status,
     body |-> [error |-> "Ollama API error: " \o ToString(response.status)
                         \o " " \o response.statusText,
               details |-> errorText,
               provider |-> "ollama",
               code |-> response.status]]

\* lines 49-54
BackendErrorReply(response, errorText) ==
    [status |-> 502,
     body |-> [error |-> "Ollama API error: " \o ToString(response.status)
                         \o " " \o response.statusText,
               details |-> errorText,
               provider |-> "ollama",
               code |-> response.status]]

\* Mutant: the model list removed from the body before it is returned as raw.
SuccessReplyStripped(txt, data, response) ==
    [status |-> 200,
     body |-> [text |-> txt,
               raw |-> IF data.t = "object"
                       THEN JObj([k \in DOMAIN data.o \ {"models"} |-> data.o[k]])
                       ELSE data]]

\* Mutant: the list written to the Response object copied into the reply.
SuccessReplyWithModels(txt, data, response) ==
    [status |-> 200,
     body |-> IF "availableModels" \in DOMAIN response
              THEN [text |-> txt, raw |-> data,
                    availableModels |-> response.availableModels]
              ELSE [text |-> txt, raw |-> data]]

\* line 95: Response.json({ text, raw: data }); response is in scope and unused.
SuccessReply(txt, data, response) ==
    [status |-> 200, body |-> [text |-> txt, raw |-> data]]

\* line 100
TimeoutReply ==
    [status |-> 504,
     body |-> [error |-> "Ollama request timed out", provider |-> "ollama", code |-> 504]]

\* line 102: err?.message || 'Unknown error'
Message(err) == IF err.message = "" THEN "Unknown error" ELSE err.message

\* Mutant: the 500 reply without the provider field.
FailureReplyWithoutProvider(err) ==
    [status |-> 500, body |-> [error |-> Message(err)]]

\* line 104
FailureReply(err) ==
    [status |-> 500, body |-> [error |-> Message(err), provider |-> "ollama"]]

\* Mutant: the catch block without the AbortError branch.
CatchReplyNoAbortBranch(err) == FailureReply(err)

\* Mutant: the catch block reporting every failure as a timeout.
CatchReplyAlwaysTimeout(err) == TimeoutReply

\* lines 96-104: the catch block.
CatchReply(err) ==
    IF err.name = "AbortError" THEN TimeoutReply ELSE FailureReply(err)

(***************************************************************************)
(* Inputs: inbound requests, the environment, what the backend sends.      *)
(***************************************************************************)

\* A body that is not JSON: req.json() / response.json() reject on it.
Unparseable == [t |-> "unparseable"]

Models == {Undefined, JStr("phi"), JStr("llama3"), JStr("Llama3")}
BaseUrls == {Undefined, JStr(""), JStr("http://remote:11434")}
EnvUrls == {Undefined, JStr(""), JStr("http://env:11434")}

ChatMessages ==
    {JObj([role |-> JStr("user"), content |-> JStr("hi")]),
     JObj([role |-> JStr("assistant"), content |-> JStr("yo"), id |-> JNum(1)])}

\* Elements of an inbound messages array: chat messages, or null.
MessageElements == ChatMessages \cup {JNull}

MessagesValues ==
    {Undefined, JStr("hi")} \cup {JArr(m) : m \in SeqUpTo(MessageElements, MaxMsgs)}

Requests ==
    {Unparseable, JNull}
    \cup {JObj(Field("messages", m) @@ Field("model", mo) @@ Field("baseUrl", b)) :
            m \in MessagesValues, mo \in Models, b \in BaseUrls}

Statuses == {200, 404, 500}
ErrorTexts == {"", "model 'phi' not found"}

\* Entries of a backend model list.
Entries ==
    {JObj([name |-> JStr("llama3")]), JObj([name |-> JStr("Llama3")]),
     JObj([foo |-> JStr("bar")]), JObj([name |-> JNum(7)]), JNull, JNum(5)}

Lists == SeqUpTo(Entries, MaxList)

\* The list of the spec's scenario, and one longer than the cap.
ScenarioList ==
    <<JObj([name |-> JStr("llama3")]), JObj([name |-> JStr("mistral")]),
      JObj([foo |-> JStr("bar")])>>
LongList ==
    [i \in 1..(MaxAvailable + 2) |->
        IF i = 2 THEN JObj([foo |-> JStr("bar")])
        ELSE JObj([name |-> JStr("m" \o ToString(i))])]
AllLists == Lists \cup {ScenarioList, LongList}

MessageFields ==
    {Undefined, JNull, JStr("m"), JObj(EmptyFields),
     JObj([content |-> JStr("hello there")]), JObj([content |-> JStr("")]),
     JObj([content |-> JNum(7)])}
ResponseFields == {Undefined, JStr(""), JStr("flat")}

\* Bodies without a model list: every combination of message and response.
TextBodies ==
    {JObj(Field("message", m) @@ Field("response", rs)) :
        m \in MessageFields, rs \in ResponseFields}

\* Bodies carrying a model list in each of the three places.
ListBodies ==
    {JArr(l) : l \in AllLists}
    \cup {JObj([models |-> JArr(l)]) : l \in AllLists}
    \cup {JObj([data |-> JArr(l)]) : l \in AllLists}
    \cup {JObj([models |-> JStr("none"), data |-> JArr(l)]) : l \in {ScenarioList}}
    \cup {JObj([models |-> JArr(l), data |-> JArr(LongList)]) : l \in {ScenarioList}}
    \cup {JObj([message |-> JObj([content |-> JStr("hello there")]), models |-> JArr(l)]) :
            l \in {ScenarioList, <<JNull>>}}

OtherBodies == {JNull, JNum(5), JStr("s"), JObj([done |-> JBool(TRUE)])}

JsonBodies == TextBodies \cup ListBodies \cup OtherBodies

\* The single request of Spec.
Reqs == {"r1"}

(***************************************************************************)
(* State.                                                                  *)
(***************************************************************************)
VARIABLES
    pc,          \* per request: "start", "fetching", "readingText", "readingJson", "done"
    request,     \* per request: the inbound body
    env,         \* process.env.OLLAMA_URL
    timeoutId,   \* per request: line 6, TRUE once setTimeout returned an id
    timerArmed,  \* per request: the timer is pending in the runtime
    aborted,     \* per request: controller.signal.aborted
    outbound,    \* per request: the fetch calls issued, in order
    response,    \* per request: the fetch Response object (line 35), or Undefined
    backendBody, \* per request: the body the backend delivered completely
    err,         \* per request: line 97, the error the catch block caught
    replies      \* per request: the replies the handler returned, in order

vars == <<pc, request, env, timeoutId, timerArmed, aborted, outbound, response,
          backendBody, err, replies>>

NoBody == [kind |-> "none"]
TextBody(s) == [kind |-> "text", text |-> s]
JsonBody(v) == [kind |-> "json", value |-> v]

InitFor(R) ==
    /\ pc = [r \in R |-> "start"]
    /\ request \in [R -> Requests]
    /\ env \in EnvUrls
    /\ timeoutId = [r \in R |-> FALSE]
    /\ timerArmed = [r \in R |-> FALSE]
    /\ aborted = [r \in R |-> FALSE]
    /\ outbound = [r \in R |-> <<>>]
    /\ response = [r \in R |-> Undefined]
    /\ backendBody = [r \in R |-> NoBody]
    /\ err = [r \in R |-> NoErr]
    /\ replies = [r \in R |-> <<>>]

Init == InitFor(Reqs)

\* Mutant: the handler returns without the finally block's clearTimeout.
ReturnWithoutClear(r, rep) ==
    /\ replies' = [replies EXCEPT ![r] = Append(@, rep)]
    /\ timerArmed' = timerArmed
    /\ pc' = [pc EXCEPT ![r] = "done"]

\* The handler returns rep; lines 105-110: the finally block clears the timer.
Return(r, rep) ==
    /\ replies' = [replies EXCEPT ![r] = Append(@, rep)]
    /\ timerArmed' = [timerArmed EXCEPT ![r] = IF timeoutId[r] THEN FALSE ELSE @]
    /\ pc' = [pc EXCEPT ![r] = "done"]

\* An await rejected or an expression threw: lines 96-104, then the finally.
Throw(r, e) ==
    /\ err' = [err EXCEPT ![r] = e]
    /\ Return(r, CatchReply(e))

(***************************************************************************)
(* Lines 60-104 as one function of the handler's locals: the Response      *)
(* object after the run (line 89 writes to it) and the reply returned.     *)
(***************************************************************************)
Complete(model, data, resp) ==
    IF Nullish(data)
    THEN [response |-> resp, err |-> ReadOfNull, reply |-> CatchReply(ReadOfNull)]  \* line 62
    ELSE IF ~IsString(model)
    THEN [response |-> resp, err |-> LowerOfNonString,
          reply |-> CatchReply(LowerOfNonString)]                         \* line 84
    ELSE LET list == modelList(data)
             fnd == found(list, slug(model))
         IN  IF ~fnd /\ Len(list) > 0
             THEN IF HasNullEntry(list)
                  THEN [response |-> resp, err |-> NameOfNull,
                        reply |-> CatchReply(NameOfNull)]                 \* line 90
                  ELSE LET marked == ("availableModels" :> availableModels(list)) @@ resp
                       IN  [response |-> marked, err |-> NoErr,
                            reply |-> SuccessReply(text(data), data, marked)]
             ELSE [response |-> resp, err |-> NoErr,
                   reply |-> SuccessReply(text(data), data, resp)]

(***************************************************************************)
(* Actions.                                                                *)
(***************************************************************************)

\* Lines 6-42: parse the inbound body, resolve the URL, arm the timer, call fetch.
Receive(r) ==
    /\ pc[r] = "start"
    /\ LET body == request[r]
           messages == Get(body, "messages")
           model == Get(body, "model")
           baseUrl == Get(body, "baseUrl")
       IN  IF body = Unparseable
           THEN /\ Throw(r, JsonSyntaxError)
                /\ UNCHANGED <<timeoutId, outbound>>
           ELSE IF Nullish(body)
           THEN /\ Throw(r, NullDestructure)
                /\ UNCHANGED <<timeoutId, outbound>>
           ELSE IF ~IsArray(messages)
           THEN /\ Throw(r, MapOfNonArray)
                /\ UNCHANGED <<timeoutId, outbound>>
           ELSE IF HasNullMessage(messages)
           THEN /\ Throw(r, RoleOfNull)
                /\ UNCHANGED <<timeoutId, outbound>>
           ELSE /\ timeoutId' = [timeoutId EXCEPT ![r] = TRUE]
                /\ timerArmed' = [timerArmed EXCEPT ![r] = TRUE]
                /\ outbound' = [outbound EXCEPT ![r] =
                      Append(@, [url |-> ChatUrl(ollamaUrl(baseUrl, env)),
                                 method |-> "POST",
                                 body |-> requestBody(model, messages)])]
                /\ pc' = [pc EXCEPT ![r] = "fetching"]
                /\ UNCHANGED <<err, replies>>
    /\ UNCHANGED <<request, env, aborted, response, backendBody>>

\* Line 35 resolves: the backend's status line and headers arrived.  Lines
\* 44-47 or 57: the handler starts reading the body.
BackendAnswers(r, status) ==
    /\ pc[r] = "fetching"
    /\ response' = [response EXCEPT ![r] =
          [status |-> status, statusText |-> StatusText(status), ok |-> Ok(status)]]
    /\ pc' = [pc EXCEPT ![r] = IF Ok(status) THEN "readingJson" ELSE "readingText"]
    /\ UNCHANGED <<request, env, timeoutId, timerArmed, aborted, outbound,
                   backendBody, err, replies>>

\* Mutant: a rejected fetch is issued again instead of being reported.
FetchFailsRetry(r) ==
    /\ pc[r] = "fetching"
    /\ Len(outbound[r]) < 3
    /\ outbound' = [outbound EXCEPT ![r] = Append(@, @[1])]
    /\ UNCHANGED <<pc, request, env, timeoutId, timerArmed, aborted, response,
                   backendBody, err, replies>>

\* Line 35 rejects: connection refused, DNS failure.
FetchFails(r) ==
    /\ pc[r] = "fetching"
    /\ Throw(r, FetchFailed)
    /\ UNCHANGED <<request, env, timeoutId, aborted, outbound, response, backendBody>>

\* Line 47 resolves with the body text of a non-2xx answer; lines 48-54.
ErrorTextArrives(r, errorText) ==
    /\ pc[r] = "readingText"
    /\ backendBody' = [backendBody EXCEPT ![r] = TextBody(errorText)]
    /\ Return(r, BackendErrorReply(response[r], errorText))
    /\ UNCHANGED <<request, env, timeoutId, aborted, outbound, response, err>>

\* Line 57 resolves with the parsed body of a 2xx answer; lines 58-95.
DataArrives(r, data) ==
    /\ pc[r] = "readingJson"
    /\ backendBody' = [backendBody EXCEPT ![r] = JsonBody(data)]
    /\ LET done == Complete(Get(request[r], "model"), data, response[r])
       IN  /\ response' = [response EXCEPT ![r] = done.response]
           /\ err' = [err EXCEPT ![r] = done.err]
           /\ UNCHANGED timeoutId
           /\ Return(r, done.reply)
    /\ UNCHANGED <<request, env, aborted, outbound>>

\* Line 57 rejects: the 2xx body is complete and is not JSON.
DataUnparseable(r) ==
    /\ pc[r] = "readingJson"
    /\ backendBody' = [backendBody EXCEPT ![r] = JsonBody(Unparseable)]
    /\ Throw(r, JsonSyntaxError)
    /\ UNCHANGED <<request, env, timeoutId, aborted, outbound, response>>

\* Line 47 or 57 rejects: the connection broke while the body was read.
BodyReadFails(r) ==
    /\ pc[r] \in {"readingText", "readingJson"}
    /\ Throw(r, BodyTerminated)
    /\ UNCHANGED <<request, env, timeoutId, aborted, outbound, response, backendBody>>

\* Mutant: the timer callback runs and does not abort the controller.
TimerFiresWithoutAbort(r) ==
    /\ timerArmed[r]
    /\ timerArmed' = [timerArmed EXCEPT ![r] = FALSE]
    /\ UNCHANGED <<pc, request, env, timeoutId, aborted, outbound, response,
                   backendBody, err, replies>>

\* Mutant: one controller shared by all invocations, so that the callback
\* raises the signal of every request.
TimerFiresShared(r) ==
    /\ timerArmed[r]
    /\ aborted' = [q \in DOMAIN aborted |-> TRUE]
    /\ IF pc[r] \in {"fetching", "readingText", "readingJson"}
       THEN /\ err' = [err EXCEPT ![r] = AbortError]
            /\ replies' = [replies EXCEPT ![r] = Append(@, TimeoutReply)]
            /\ timerArmed' = [timerArmed EXCEPT ![r] = FALSE]
            /\ pc' = [pc EXCEPT ![r] = "done"]
       ELSE /\ timerArmed' = [timerArmed EXCEPT ![r] = FALSE]
            /\ UNCHANGED <<pc, err, replies>>
    /\ UNCHANGED <<request, env, timeoutId, outbound, response, backendBody>>

\* Lines 30-33: the timer callback runs and aborts the controller.  The
\* pending await (line 35, 47 or 57) rejects with an AbortError.
TimerFires(r) ==
    /\ timerArmed[r]
    /\ aborted' = [aborted EXCEPT ![r] = TRUE]
    /\ IF pc[r] \in {"fetching", "readingText", "readingJson"}
       THEN Throw(r, AbortError)
       ELSE /\ timerArmed' = [timerArmed EXCEPT ![r] = FALSE]
            /\ UNCHANGED <<pc, err, replies>>
    /\ UNCHANGED <<request, env, timeoutId, outbound, response, backendBody>>

Next ==
    \E r \in DOMAIN pc :
        \/ Receive(r)
        \/ \E status \in Statuses : BackendAnswers(r, status)
        \/ FetchFails(r)
        \/ \E errorText \in ErrorTexts : ErrorTextArrives(r, errorText)
        \/ \E data \in JsonBodies : DataArrives(r, data)
        \/ DataUnparseable(r)
        \/ BodyReadFails(r)
        \/ TimerFires(r)

Spec == Init /\ [][Next]_vars

(***************************************************************************)
(* Two invocations in flight at once, on a small set of inputs.            *)
(***************************************************************************)
ConcReqs == {"r1", "r2"}

ConcRequests ==
    {JObj([model |-> JStr("phi")]),
     JObj([messages |-> JArr(<<JObj([role |-> JStr("user"), content |-> JStr("hi")])>>),
           model |-> JStr("phi")]),
     JObj([messages |-> JArr(<<JObj([role |-> JStr("user"), content |-> JStr("hi")])>>),
           model |-> JStr("Llama3"), baseUrl |-> JStr("http://remote:11434")])}

ConcBodies ==
    {JNull,
     JObj([message |-> JObj([content |-> JStr("hello there")])]),
     JObj([models |-> JArr(ScenarioList)]),
     JArr(<<JObj([name |-> JStr("Llama3")])>>)}

InitConc ==
    /\ pc = [r \in ConcReqs |-> "start"]
    /\ request \in [ConcReqs -> ConcRequests]
    /\ env \in {Undefined, JStr("http://env:11434")}
    /\ timeoutId = [r \in ConcReqs |-> FALSE]
    /\ timerArmed = [r \in ConcReqs |-> FALSE]
    /\ aborted = [r \in ConcReqs |-> FALSE]
    /\ outbound = [r \in ConcReqs |-> <<>>]
    /\ response = [r \in ConcReqs |-> Undefined]
    /\ backendBody = [r \in ConcReqs |-> NoBody]
    /\ err = [r \in ConcReqs |-> NoErr]
    /\ replies = [r \in ConcReqs |-> <<>>]

NextConc ==
    \E r \in DOMAIN pc :
        \/ Receive(r)
        \/ \E status \in Statuses : BackendAnswers(r, status)
        \/ FetchFails(r)
        \/ \E errorText \in ErrorTexts : ErrorTextArrives(r, errorText)
        \/ \E data \in ConcBodies : DataArrives(r, data)
        \/ DataUnparseable(r)
        \/ BodyReadFails(r)
        \/ TimerFires(r)

SpecConc == InitConc /\ [][NextConc]_vars

\* The runtime runs a timer callback once its delay has passed (line 30):
\* an armed timer that stays armed eventually fires.
SpecLive == Init /\ [][Next]_vars /\ \A r \in Reqs : WF_vars(TimerFires(r))

(***************************************************************************)
(* Properties.                                                             *)
(***************************************************************************)
Replied(r) == Len(replies[r]) > 0
Reply(r) == replies[r][1]
Issued(r) == Len(outbound[r]) > 0
Answered(r) == response[r] # Undefined

\* C1: for every request whose outbound call was issued, if the deadline
\* timer fired before the reply (while the fetch was pending or while the
\* body was being read), the only reply is HTTP 504 with body
\* {error: "Ollama request timed out", provider: "ollama", code: 504}, and
\* no HTTP 200 reply exists for that request.
C1_TimeoutIs504 ==
    \A r \in DOMAIN pc :
        (Issued(r) /\ aborted[r]) =>
            /\ replies[r] = <<[status |-> 504,
                               body |-> [error |-> "Ollama request timed out",
                                         provider |-> "ollama", code |-> 504]]>>
            /\ \A i \in 1..Len(replies[r]) : replies[r][i].status # 200

\* C1 witness: the timer fired while the body of a 2xx answer was being read.
C1_Witness ==
    \E r \in DOMAIN pc :
        /\ Issued(r) /\ aborted[r] /\ Answered(r) /\ response[r].ok
        /\ backendBody[r] = NoBody
        /\ Replied(r) /\ Reply(r).status = 504

\* C2 as stated: whenever the backend answered with a non-2xx status, the
\* handler's reply is HTTP 502, never 504 or 500.
C2_Original ==
    \A r \in DOMAIN pc :
        (Answered(r) /\ ~response[r].ok /\ Replied(r)) => Reply(r).status = 502

\* C2 amended: whenever the backend answered with a non-2xx status and its
\* body text was read completely, the only reply is HTTP 502 (not the
\* backend's status, not 504, not 500) with code equal to the backend's
\* status, details equal to the backend's body text and provider "ollama".
C2_NonOkIs502 ==
    \A r \in DOMAIN pc :
        (Answered(r) /\ ~response[r].ok /\ backendBody[r].kind = "text") =>
            /\ Len(replies[r]) = 1
            /\ Reply(r).status = 502
            /\ DOMAIN Reply(r).body = {"error", "details", "provider", "code"}
            /\ Reply(r).body.code = response[r].status
            /\ Reply(r).body.details = backendBody[r].text
            /\ Reply(r).body.provider = "ollama"

\* C2 witness: a 404 with a non-empty body text was relayed as 502.
C2_Witness ==
    \E r \in DOMAIN pc :
        /\ Answered(r) /\ response[r].status = 404
        /\ backendBody[r].kind = "text" /\ backendBody[r].text # ""
        /\ Replied(r) /\ Reply(r).status = 502 /\ Reply(r).body.code = 404

\* The failures of the outbound exchange itself.
TransportErrors == {FetchFailed, BodyTerminated, JsonSyntaxError}

\* C3: if the outbound exchange failed at transport level (the fetch was
\* rejected, the body read broke, or a 2xx body did not parse) and the timer
\* has not fired, the only reply is HTTP 500 with body {error: the error's
\* message, provider: "ollama"}; and a 504 reply exists only if the timer fired.
C3_TransportFailureIs500 ==
    \A r \in DOMAIN pc :
        /\ (Issued(r) /\ err[r] \in TransportErrors /\ ~aborted[r]) =>
              replies[r] = <<[status |-> 500,
                              body |-> [error |-> err[r].message, provider |-> "ollama"]]>>
        /\ \A i \in 1..Len(replies[r]) : replies[r][i].status = 504 => aborted[r]

\* C3 witness: a 2xx body that did not parse was reported as 500.
C3_Witness ==
    \E r \in DOMAIN pc :
        /\ Issued(r) /\ ~aborted[r] /\ err[r] = JsonSyntaxError
        /\ backendBody[r] = JsonBody(Unparseable)
        /\ Replied(r) /\ Reply(r).status = 500

\* The parsed body of a 2xx answer that arrived completely and is JSON.
Parsed(r) ==
    /\ Answered(r) /\ response[r].ok
    /\ backendBody[r].kind = "json" /\ backendBody[r].value # Unparseable
Data(r) == backendBody[r].value

\* A request as the spec's data model has it: a model string and a message sequence.
ValidRequest(r) ==
    /\ request[r].t = "object"
    /\ IsString(Get(request[r], "model"))
    /\ IsArray(Get(request[r], "messages"))

\* The body has a nested message object with a content string.
HasContentString(d) ==
    /\ Get(d, "message").t = "object"
    /\ IsString(Get(Get(d, "message"), "content"))
ContentOf(d) == Get(Get(d, "message"), "content")

\* The body has a flat response string.
HasResponseString(d) == IsString(Get(d, "response"))

\* C4 as stated: in every 200 reply, text is the nested message content
\* string whenever the body has one (the empty string included), and
\* otherwise the flat response string whenever the body has one.
C4_Original ==
    \A r \in DOMAIN pc :
        (Replied(r) /\ Reply(r).status = 200) =>
            IF HasContentString(Data(r))
            THEN Reply(r).body.text = ContentOf(Data(r))
            ELSE HasResponseString(Data(r)) =>
                    Reply(r).body.text = Get(Data(r), "response")

\* C4 amended: in every 200 reply, if the body has a nested message object
\* with a non-empty content string, text is exactly that string, also when a
\* flat response string is present; otherwise, if the body has no truthy
\* nested message content and has a non-empty flat response string, text is
\* exactly that string.
C4_TextPriority ==
    \A r \in DOMAIN pc :
        (Replied(r) /\ Reply(r).status = 200) =>
            LET d == Data(r)
                truthyContent == /\ Truthy(Get(d, "message"))
                                 /\ Truthy(Get(Get(d, "message"), "content"))
            IN  /\ (HasContentString(d) /\ ContentOf(d).s # "") =>
                        Reply(r).body.text = ContentOf(d)
                /\ (~truthyContent /\ HasResponseString(d) /\ Get(d, "response").s # "") =>
                        Reply(r).body.text = Get(d, "response")

\* C4 witness: a 200 reply for a body with both a nested content string and
\* a flat response string, whose text is the nested one.
C4_Witness ==
    \E r \in DOMAIN pc :
        /\ Replied(r) /\ Reply(r).status = 200
        /\ HasContentString(Data(r)) /\ ContentOf(Data(r)).s # ""
        /\ HasResponseString(Data(r)) /\ Get(Data(r), "response").s # ""
        /\ Reply(r).body.text = ContentOf(Data(r))

\* C5: for every valid request, every parseable 2xx body with neither a
\* nested message content string nor a flat response string is answered
\* with HTTP 200 and the placeholder text, never with an error reply.
C5_Claim ==
    \A r \in DOMAIN pc :
        (ValidRequest(r) /\ Parsed(r)
            /\ ~HasContentString(Data(r)) /\ ~HasResponseString(Data(r))) =>
            /\ Len(replies[r]) = 1
            /\ Reply(r).status = 200
            /\ Reply(r).body.text = JStr("No response from Ollama")

\* C6: in every 200 reply, raw is the parsed backend body, unmodified.
C6_RawIsBody ==
    \A r \in DOMAIN pc :
        \A i \in 1..Len(replies[r]) :
            replies[r][i].status = 200 =>
                /\ Parsed(r)
                /\ replies[r][i].body.raw = Data(r)

\* C6 witness: a 200 reply for a body from which a text was extracted, a
\* model list was taken and whose model resolution check found no match.
C6_Witness ==
    \E r \in DOMAIN pc :
        /\ Replied(r) /\ Reply(r).status = 200
        /\ HasContentString(Data(r)) /\ Reply(r).body.text = ContentOf(Data(r))
        /\ Len(modelList(Data(r))) > 0
        /\ "availableModels" \in DOMAIN response[r]
        /\ Reply(r).body.raw = Data(r)

\* The names of the list's entries that are strings, in order.
StringNames(list) ==
    SelectSeq([i \in 1..Len(list) |-> Get(list[i], "name")], IsString)

\* C7: for every valid request, when the 2xx body yields a non-empty model
\* list with no entry whose name equals the requested model, the reply is
\* HTTP 200 and its body has availableModels equal to the first at most 10
\* string names of the list, in the backend's order.
C7_Claim ==
    \A r \in DOMAIN pc :
        LET list == modelList(Data(r))
            names == StringNames(list)
        IN  (ValidRequest(r) /\ Parsed(r) /\ Len(list) > 0
                /\ \A i \in 1..Len(names) : names[i] # Get(request[r], "model")) =>
                /\ Replied(r) /\ Reply(r).status = 200
                /\ "availableModels" \in DOMAIN Reply(r).body
                /\ Reply(r).body.availableModels = SubSeq(names, 1, Min(10, Len(names)))

\* The list has an entry whose name matches the model without regard to case.
CaseInsensitiveMatch(list, model) ==
    \E i \in 1..Len(list) :
        /\ IsString(Get(list[i], "name"))
        /\ ToLowerCase(Get(list[i], "name").s) = ToLowerCase(model.s)

Nameless(m) == ~IsString(Get(m, "name"))

\* C9: for every valid request, a backend model list with entries that lack
\* a usable string name (no name, a non-string name, null, a scalar) is
\* still answered with HTTP 200, and no such entry is in availableModels.
C9_Claim ==
    \A r \in DOMAIN pc :
        LET list == modelList(Data(r))
        IN  (ValidRequest(r) /\ Parsed(r)
                /\ \E i \in 1..Len(list) : Nameless(list[i])) =>
                /\ Replied(r) /\ Reply(r).status = 200
                /\ "availableModels" \in DOMAIN Reply(r).body =>
                      \A i \in 1..Len(Reply(r).body.availableModels) :
                          IsString(Reply(r).body.availableModels[i])

\* The request's baseUrl field is present.
HasBaseUrl(r) == request[r].t = "object" /\ "baseUrl" \in DOMAIN request[r].o

\* C10 as stated: every outbound call targets <base>/api/chat with base the
\* request's baseUrl if present, else OLLAMA_URL if set, else the fallback.
C10_Original ==
    \A r \in DOMAIN pc :
        \A i \in 1..Len(outbound[r]) :
            outbound[r][i].url =
                (IF HasBaseUrl(r) THEN Get(request[r], "baseUrl").s
                 ELSE IF env # Undefined THEN env.s
                 ELSE "http://localhost:11434") \o "/api/chat"

\* C10 amended: every outbound call targets <base>/api/chat with base the
\* request's baseUrl if it is a non-empty string, else OLLAMA_URL if it is
\* set and non-empty, else http://localhost:11434.
C10_UrlPriority ==
    \A r \in DOMAIN pc :
        \A i \in 1..Len(outbound[r]) :
            outbound[r][i].url =
                (IF HasBaseUrl(r) /\ Get(request[r], "baseUrl").s # ""
                 THEN Get(request[r], "baseUrl").s
                 ELSE IF env # Undefined /\ env.s # "" THEN env.s
                 ELSE "http://localhost:11434") \o "/api/chat"

\* C10 witness: a call issued with both a request baseUrl and OLLAMA_URL
\* set, targeting the request's baseUrl.
C10_Witness ==
    \E r \in DOMAIN pc :
        /\ Issued(r) /\ HasBaseUrl(r) /\ Get(request[r], "baseUrl").s # ""
        /\ env # Undefined /\ env.s # ""
        /\ outbound[r][1].url = Get(request[r], "baseUrl").s \o "/api/chat"

\* C11: every outbound request body has exactly the fields model (when the
\* request has one), messages and stream; stream is false, model is the
\* request's model, and messages has the request's length and order, each
\* element carrying exactly the role and content of the inbound message at
\* its position.
C11_OutboundBody ==
    \A r \in DOMAIN pc :
        \A i \in 1..Len(outbound[r]) :
            LET sent == outbound[r][i].body
                inbound == Get(request[r], "messages")
            IN  /\ sent.t = "object"
                /\ DOMAIN sent.o \subseteq {"model", "messages", "stream"}
                /\ Get(sent, "stream") = JBool(FALSE)
                /\ Get(sent, "model") = Get(request[r], "model")
                /\ IsArray(Get(sent, "messages"))
                /\ Len(Get(sent, "messages").a) = Len(inbound.a)
                /\ \A j \in 1..Len(inbound.a) :
                      LET m == Get(sent, "messages").a[j]
                      IN  /\ DOMAIN m.o \subseteq {"role", "content"}
                          /\ Get(m, "role") = Get(inbound.a[j], "role")
                          /\ Get(m, "content") = Get(inbound.a[j], "content")

\* C11 witness: a call issued for two different messages, one of them with
\* a field besides role and content.
C11_Witness ==
    \E r \in DOMAIN pc :
        /\ Issued(r)
        /\ Len(Get(request[r], "messages").a) = 2
        /\ Get(request[r], "messages").a[1] # Get(request[r], "messages").a[2]
        /\ "id" \in DOMAIN Get(request[r], "messages").a[2].o
        /\ IsString(Get(outbound[r][1].body, "model"))

\* The inbound body reaches line 35: it parses, is not null, and its
\* messages is an array without null elements.
WellFormed(r) ==
    /\ request[r] # Unparseable
    /\ ~Nullish(request[r])
    /\ IsArray(Get(request[r], "messages"))
    /\ ~HasNullMessage(Get(request[r], "messages"))

\* C12 as stated: every handled request has issued exactly one outbound
\* call and produced exactly one reply.
C12_Original ==
    \A r \in DOMAIN pc :
        pc[r] = "done" => (Len(outbound[r]) = 1 /\ Len(replies[r]) = 1)

\* C12 amended: a request never has more than one outbound call or more
\* than one reply; a handled request has exactly one reply; it has exactly
\* one outbound call if its inbound body is well formed and none otherwise;
\* and while the handler waits on the backend exactly one call is out.
C12_OneCallOneReply ==
    \A r \in DOMAIN pc :
        /\ Len(outbound[r]) <= 1
        /\ Len(replies[r]) = (IF pc[r] = "done" THEN 1 ELSE 0)
        /\ pc[r] = "done" => (Len(outbound[r]) = 1 <=> WellFormed(r))
        /\ pc[r] \in {"fetching", "readingText", "readingJson"} => Len(outbound[r]) = 1
        /\ pc[r] = "start" => Len(outbound[r]) = 0

\* C12 witness: a well-formed request whose fetch was rejected: one call,
\* no retry, one reply.
C12_Witness ==
    \E r \in DOMAIN pc :
        /\ pc[r] = "done" /\ WellFormed(r) /\ err[r] = FetchFailed
        /\ Len(outbound[r]) = 1 /\ Len(replies[r]) = 1

\* C13: in every state where the handler has replied, the deadline timer
\* is not pending; and from such a state no step fires the timer or raises
\* the abort signal.
C13_TimerCleared ==
    /\ [](\A r \in Reqs : Replied(r) => ~timerArmed[r])
    /\ [][\A r \in Reqs :
             Replied(r) => (aborted'[r] = aborted[r] /\ ~timerArmed'[r])]_vars

\* C13 witness: a 200 reply after the timer was armed, with the timer
\* cleared and the signal never raised.
C13_Witness ==
    \E r \in DOMAIN pc :
        /\ Replied(r) /\ Reply(r).status = 200
        /\ timeoutId[r] /\ ~timerArmed[r] /\ ~aborted[r]

\* C14: under fairness of the deadline timer, every issued outbound call
\* is eventually followed by a reply, whatever the backend does or omits.
C14_EventuallyReplies ==
    \A r \in Reqs : Issued(r) ~> Replied(r)

\* C14 witness: the backend never answered and the handler replied.
C14_Witness ==
    \E r \in DOMAIN pc :
        /\ Issued(r) /\ ~Answered(r) /\ err[r] = AbortError
        /\ Replied(r) /\ pc[r] = "done"

\* Everything the handler holds for one request.
Local(r) ==
    <<pc[r], request[r], timeoutId[r], timerArmed[r], aborted[r], outbound[r],
      response[r], backendBody[r], err[r], replies[r]>>

\* What the backend and the timer did to one request.
BackendOutcome(r) ==
    <<IF Answered(r) THEN response[r].status ELSE 0, backendBody[r], aborted[r],
      err[r] \in {FetchFailed, BodyTerminated}>>

\* C15: with two requests in flight, every step changes the state of at
\* most one request and never the shared environment; a timer that fires
\* raises only its own request's abort signal; and two handled requests with
\* the same inbound body and the same backend outcome have the same reply.
C15_NoSharing ==
    /\ [][/\ env' = env
          /\ \E r \in ConcReqs : \A q \in ConcReqs \ {r} : Local(q)' = Local(q)
          /\ \A r \in ConcReqs :
                (aborted'[r] /\ ~aborted[r]) =>
                    (timerArmed[r] /\ \A q \in ConcReqs \ {r} : aborted'[q] = aborted[q])]_vars
    /\ [](\A r, q \in ConcReqs :
            (pc[r] = "done" /\ pc[q] = "done" /\ request[r] = request[q]
                /\ BackendOutcome(r) = BackendOutcome(q)) => replies[r] = replies[q])

\* C15 witness: one request was aborted by its timer and answered 504 while
\* the other's call is still pending with its timer armed and its signal clear.
C15_Witness ==
    \E r, q \in DOMAIN pc :
        /\ r # q
        /\ aborted[r] /\ Replied(r) /\ Reply(r).status = 504
        /\ pc[q] = "fetching" /\ timerArmed[q] /\ ~aborted[q]

\* C16: a request whose handling fails before line 35 (the inbound body is
\* not JSON or is null, messages is missing or not an array, or a message
\* is null) never has an outbound call, never has its timer armed or its
\* signal raised, and once handled its only reply is HTTP 500 with body
\* {error: the error's message, provider: "ollama"}.
C16_EarlyFailure ==
    \A r \in DOMAIN pc :
        ~WellFormed(r) =>
            /\ outbound[r] = <<>>
            /\ ~timeoutId[r] /\ ~timerArmed[r] /\ ~aborted[r]
            /\ pc[r] \in {"start", "done"}
            /\ pc[r] = "done" =>
                  /\ Len(replies[r]) = 1
                  /\ Reply(r).status = 500
                  /\ DOMAIN Reply(r).body = {"error", "provider"}
                  /\ Reply(r).body.provider = "ollama"
                  /\ Reply(r).body.error = err[r].message
                  /\ err[r] \in {JsonSyntaxError, NullDestructure, MapOfNonArray, RoleOfNull}

\* C16 witness: a request with a model and without messages was answered 500.
C16_Witness ==
    \E r \in DOMAIN pc :
        /\ request[r].t = "object" /\ IsString(Get(request[r], "model"))
        /\ Get(request[r], "messages") = Undefined
        /\ pc[r] = "done" /\ Reply(r).status = 500 /\ outbound[r] = <<>>
        /\ ~timeoutId[r]

====
